---- MODULE Spec2Model ----
(***************************************************************************)
(* State-machine model of src/internal_hvh/misc/hybrid_hook.h:             *)
(*   c_hook, c_detour (inline detour through PLH::x86Detour) and           *)
(*   c_vtable_hook (PLH::VFuncSwapHook / PLH::VTableSwapHook).             *)
(*                                                                         *)
(* Addresses are natural numbers, 0 is the null address.  The patch engine *)
(* (PolyHook2) is not part of the repository: its operations are modelled  *)
(* from the capability contract of the specification (section 6) and are   *)
(* the definitions whose names start with PLH_.                            *)
(***************************************************************************)
EXTENDS Integers, Sequences, FiniteSets, TLC

\* ------------------------------------------------------------------ bounds
\* Engine sessions (detours, resp. slot/table hooks) created in one run.
MaxSessions == 3

\* ------------------------------------------------------- program constants
\* static_cast<uint16_t>(index): the engine's slot index has 16 bits.
U16 == 65536

\* ------------------------------------------------------------ input spaces
\* c_detour(src): the default constructor gives 0.
SrcAddrs == {0, 4096}
\* apply(dest)
Dests == {0, 8192, 12288}
\* Trampoline addresses the engine can hand out on success (never 0).
Tramps == {20480, 24576}
\* Whatever the engine may leave in the trampoline out-parameter on failure.
FailTramps == {0, 28672}

VARIABLES
    \* ---- c_detour
    m_src,          \* address_t m_src
    m_trampoline,   \* uint64_t m_trampoline
    m_detour,       \* unique_ptr<x86Detour>: 0 = null, else index in plh_detours
    d_alive,        \* the c_detour object has not been destroyed
    code_target,    \* where the code at m_src jumps: 0 = original code intact
    plh_detours,    \* every x86Detour ever constructed, in order
    d_last,         \* the last call on the c_detour and what it returned
    \* ---- c_vtable_hook
    m_instance,     \* uintptr_t m_instance
    m_mode,         \* mode m_mode
    m_hooks,        \* std::vector<HookEntry> m_hooks
    v_alive,        \* the c_vtable_hook object has not been destroyed
    vptr,           \* instance -> table id its first word points to
    tables,         \* table id -> slot -> function pointer
    freed,          \* table ids (clones) whose memory has been released
    plh_hooks,      \* every VFuncSwapHook / VTableSwapHook ever constructed
    snap,           \* dispatch state when the first entry of m_hooks was installed
    v_last          \* the last call on the c_vtable_hook and what it returned

dvars == <<m_src, m_trampoline, m_detour, d_alive, code_target, plh_detours, d_last>>
vvars == <<m_instance, m_mode, m_hooks, v_alive, vptr, tables, freed, plh_hooks,
           snap, v_last>>
vars == <<dvars, vvars>>

\* =================================================================== c_detour

\* A call record: op, the destination passed, the value returned, what the
\* engine was asked ("none", "ok", "fail", "unhook"), and the state before.
DCall(op, dest, ret, engine) ==
    [op |-> op, dest |-> dest, ret |-> ret, engine |-> engine,
     pre_detour |-> m_detour, pre_trampoline |-> m_trampoline,
     pre_target |-> code_target, pre_sessions |-> Len(plh_detours)]

\* PLH::x86Detour(src, dest, &m_trampoline, dis): a new, not yet committed session.
PLH_x86Detour(dest) ==
    [dest |-> dest, hooks |-> 0, unhooks |-> 0, live |-> TRUE]

\* engine.install_detour: on success the source is redirected to dest and a
\* non-zero trampoline is stored; on failure the source is left as it was.
PLH_x86Detour_hook(s, ok, t) ==
    IF ok
    THEN [session |-> [s EXCEPT !.hooks = @ + 1], target |-> s.dest, tramp |-> t]
    ELSE [session |-> s, target |-> code_target, tramp |-> t]

\* engine.remove_detour: the original code is restored.
PLH_x86Detour_unHook(s) ==
    [session |-> [s EXCEPT !.unhooks = @ + 1], target |-> 0]

\* unique_ptr::reset(): the session object is destroyed.
PLH_release(s) == [s EXCEPT !.live = FALSE]

\* Faulty variant: the installed check is missing: every call patches again
AlreadyInstalled_Never == FALSE

\* if (m_detour)
AlreadyInstalled == m_detour # 0

\* Faulty variant: only the source address is checked
NullGuard_SrcOnly(dest) == m_src = 0

\* if (!m_src || !dest)
NullGuard(dest) == m_src = 0 \/ dest = 0

\* Faulty variant: the failure path keeps the session pointer
FailDetour_Kept(id) == id

\* m_detour.reset() on the failure path
FailDetour(id) == 0

\* Faulty variant: the failure path keeps what the engine left in m_trampoline
FailTrampoline_Kept(t) == t

\* m_trampoline = 0 on the failure path
FailTrampoline(t) == 0

\* return static_cast<address_t>(m_trampoline) after a successful hook()
SuccessReturn(t) == t

\* address_t apply(address_t dest)
c_detour_apply(dest, ok, t) ==
    /\ d_alive
    /\ IF AlreadyInstalled
       THEN /\ d_last' = DCall("apply", dest, m_trampoline, "none")
            /\ UNCHANGED <<m_src, m_trampoline, m_detour, d_alive, code_target, plh_detours>>
       ELSE IF NullGuard(dest)
       THEN /\ d_last' = DCall("apply", dest, 0, "none")
            /\ UNCHANGED <<m_src, m_trampoline, m_detour, d_alive, code_target, plh_detours>>
       ELSE /\ Len(plh_detours) < MaxSessions
            /\ LET id == Len(plh_detours) + 1
                   r  == PLH_x86Detour_hook(PLH_x86Detour(dest), ok, t)
               IN  /\ code_target' = r.target
                   /\ IF ok
                      THEN /\ t \in Tramps
                           /\ plh_detours' = Append(plh_detours, r.session)
                           /\ m_detour' = id
                           /\ m_trampoline' = r.tramp
                           /\ d_last' = DCall("apply", dest, SuccessReturn(r.tramp), "ok")
                      ELSE /\ t \in FailTramps
                           /\ plh_detours' = Append(plh_detours, PLH_release(r.session))
                           /\ m_detour' = FailDetour(id)
                           /\ m_trampoline' = FailTrampoline(r.tramp)
                           /\ d_last' = DCall("apply", dest, 0, "fail")
            /\ UNCHANGED <<m_src, d_alive>>

\* Fn original() const
original == m_trampoline

\* Faulty variant: unhook() leaves the session pointer in place
UnhookDetour_Kept == m_detour

\* m_detour.reset() in unhook()
UnhookDetour == 0

\* Faulty variant: unhook() leaves the trampoline in place
UnhookTrampoline_Kept == m_trampoline

\* m_trampoline = 0 in unhook()
UnhookTrampoline == 0

\* the body of void unhook()
unhook_body ==
    IF m_detour # 0
    THEN LET r == PLH_x86Detour_unHook(plh_detours[m_detour])
         IN  /\ code_target' = r.target
             /\ plh_detours' = [plh_detours EXCEPT ![m_detour] = PLH_release(r.session)]
             /\ m_detour' = UnhookDetour
             /\ m_trampoline' = UnhookTrampoline
    ELSE UNCHANGED <<code_target, plh_detours, m_detour, m_trampoline>>

\* void unhook()
c_detour_unhook ==
    /\ d_alive
    /\ unhook_body
    /\ d_last' = DCall("unhook", 0, 0, IF m_detour # 0 THEN "unhook" ELSE "none")
    /\ UNCHANGED <<m_src, d_alive>>

\* ~c_detour() override { unhook(); }
c_detour_dtor ==
    /\ d_alive
    /\ unhook_body
    /\ d_alive' = FALSE
    /\ d_last' = DCall("destroy", 0, 0, IF m_detour # 0 THEN "unhook" ELSE "none")
    /\ UNCHANGED m_src

\* Faulty variant: the unused overload answers like apply(dest) on an installed hook
ApplyIndexReturn_Trampoline(dest) == m_trampoline

\* { return 0; } of the unused overload
ApplyIndexReturn(dest) == 0

\* address_t apply(const uint32_t, address_t) override { return 0; }
c_detour_apply_index(dest) ==
    /\ d_alive
    /\ d_last' = DCall("apply_index", dest, ApplyIndexReturn(dest), "none")
    /\ UNCHANGED <<m_src, m_trampoline, m_detour, d_alive, code_target, plh_detours>>

\* The call record of a c_detour on which nothing has been called yet.
NoDCall ==
    [op |-> "init", dest |-> 0, ret |-> 0, engine |-> "none",
     pre_detour |-> 0, pre_trampoline |-> 0, pre_target |-> 0, pre_sessions |-> 0]

\* ============================================================= c_vtable_hook

\* Objects with a dispatch table: A is the instance the hook is bound to, B is
\* another object of the same type.  Both start on the shared table 0.
Instances == <<1000, 2000>>
InstA == Instances[1]
InstB == Instances[2]
\* c_vtable_hook(instance, m)
HookInstances == {0, InstA}
Modes == {"vfunc_swap", "vtable_swap"}

\* Table slots the model tracks.  apply takes a uint32_t index; the table is
\* taken to extend over every tracked slot.
Slots == {0, 1, 65536}
Indices == Slots
Replacements == {36864, 40960}
\* Contents of the shared table before any hook: a slot may hold a null pointer.
BaseTable == (0 :> 256) @@ (1 :> 512) @@ (65536 :> 768)
InitTables == {BaseTable, [BaseTable EXCEPT ![1] = 0]}
\* What a read of released memory can give: the old contents, zero, or junk.
UafOutcomes == {"stale", "zero", "junk"}
Junk == {57005}

\* static_cast<uint16_t>(index)
Trunc16(index) == index % U16

\* The dispatch memory as one value.
Mem == [vptr |-> vptr, tables |-> tables, freed |-> freed, hooks |-> plh_hooks]

\* A read of slot s of table tb; tb may have been released (use after free).
ReadSlot(mem, tb, s, uaf) ==
    IF tb \in mem.freed
    THEN CASE uaf = "stale" -> mem.tables[tb][s]
           [] uaf = "zero"  -> 0
           [] OTHER         -> CHOOSE j \in Junk : TRUE
    ELSE mem.tables[tb][s]

\* A call record of the c_vtable_hook, with the dispatch state before the call.
VCall(op, index, repl, ret, engine) ==
    [op |-> op, index |-> index, repl |-> repl, ret |-> ret, engine |-> engine,
     pre_hooks |-> m_hooks, pre_vptr |-> vptr, pre_tables |-> tables,
     pre_freed |-> freed, pre_sessions |-> Len(plh_hooks)]

\* struct HookEntry { index, original, vfunc, vtable }: a handle is 0 (null) or
\* the position of the engine object in plh_hooks.
HookEntry(index, orig, vfunc, vtable) ==
    [index |-> index, original |-> orig, vfunc |-> vfunc, vtable |-> vtable]

\* PLH::VFuncSwapHook(table, index16, replacement) followed by hook():
\* engine.swap_slot overwrites that one slot in place and keeps the old value.
PLH_VFuncSwapHook_hook(mem, tb, idx16, repl, ok, uaf) ==
    LET h == [kind |-> "vfunc", inst |-> 0, table |-> tb, index |-> idx16,
              repl |-> repl, saved |-> ReadSlot(mem, tb, idx16, uaf), clone |-> 0,
              hooks |-> IF ok THEN 1 ELSE 0, unhooks |-> 0, live |-> ok]
    IN  [mem EXCEPT !.hooks = Append(@, h),
                    !.tables = IF ok THEN [@ EXCEPT ![tb][idx16] = repl] ELSE @]

\* engine.unswap_slot: the slot gets back the value the session kept.
PLH_VFuncSwapHook_unHook(mem, id) ==
    LET h == mem.hooks[id]
    IN  [mem EXCEPT !.hooks[id].unhooks = @ + 1,
                    !.tables[h.table][h.index] = h.saved]

\* PLH::VTableSwapHook(instance, index16, replacement) followed by hook():
\* engine.clone_table_and_redirect copies the table the instance points to,
\* redirects the slot in the copy and repoints the instance to the copy.
PLH_VTableSwapHook_hook(mem, inst, idx16, repl, ok, uaf) ==
    LET id   == Len(mem.hooks) + 1
        from == mem.vptr[inst]
        copy == [s \in Slots |-> ReadSlot(mem, from, s, uaf)]
        h == [kind |-> "vtable", inst |-> inst, table |-> from, index |-> idx16,
              repl |-> repl, saved |-> copy[idx16], clone |-> IF ok THEN id ELSE 0,
              hooks |-> IF ok THEN 1 ELSE 0, unhooks |-> 0, live |-> ok]
    IN  IF ok
        THEN [mem EXCEPT !.hooks = Append(@, h),
                         !.tables = (id :> [copy EXCEPT ![idx16] = repl]) @@ @,
                         !.vptr[inst] = id]
        ELSE [mem EXCEPT !.hooks = Append(@, h)]

\* engine.restore_table: the instance is repointed to the table the session
\* found at install time, and the session's clone is released.
PLH_VTableSwapHook_unHook(mem, id) ==
    LET h == mem.hooks[id]
    IN  [mem EXCEPT !.hooks[id].unhooks = @ + 1,
                    !.vptr[h.inst] = h.table,
                    !.freed = @ \cup {h.clone}]

\* if (!m_instance) return 0;
NoInstance == m_instance = 0

\* uintptr_t original = (*vt_ptr)[index];
ReadOriginal(index, uaf) == ReadSlot(Mem, vptr[m_instance], index, uaf)

\* Faulty variant: the mode is not looked at: always the in-place swap
UseVFuncSwap_Always == TRUE

\* if (m_mode == mode::vfunc_swap)
UseVFuncSwap == m_mode = "vfunc_swap"

\* the index handed to the engine
EngineIndex(index) == Trunc16(index)

\* the engine call of apply: construct the hook object and commit it
ApplyEngine(index, replacement, ok, uaf) ==
    IF UseVFuncSwap
    THEN PLH_VFuncSwapHook_hook(Mem, vptr[m_instance], EngineIndex(index),
                                replacement, ok, uaf)
    ELSE PLH_VTableSwapHook_hook(Mem, m_instance, EngineIndex(index),
                                 replacement, ok, uaf)

\* Faulty variant: the handle is stored in the field of the other strategy
NewEntry_OtherField(index, orig, id) ==
    IF m_mode = "vfunc_swap" THEN [index |-> index, original |-> orig, vfunc |-> 0, vtable |-> id]
    ELSE [index |-> index, original |-> orig, vfunc |-> id, vtable |-> 0]

\* entry.vfunc = std::move(hook) / entry.vtable = std::move(hook)
NewEntry(index, orig, id) ==
    IF UseVFuncSwap THEN HookEntry(index, orig, id, 0) ELSE HookEntry(index, orig, 0, id)

\* Faulty variant: the entry is recorded although hook() returned false
HooksOnFailure_Recorded(index, orig, id) == Append(m_hooks, NewEntry(index, orig, id))

\* what m_hooks becomes when hook() returned false
HooksOnFailure(index, orig, id) == m_hooks

\* return original;
ApplyReturn(orig) == orig

\* uintptr_t apply(uint32_t index, uintptr_t replacement)
c_vtable_hook_apply(index, replacement, ok, uaf) ==
    /\ v_alive
    /\ IF NoInstance
       THEN /\ v_last' = VCall("apply", index, replacement, 0, "none")
            /\ UNCHANGED <<m_instance, m_mode, m_hooks, v_alive, vptr, tables, freed,
                           plh_hooks, snap>>
       ELSE /\ Len(plh_hooks) < MaxSessions
            /\ LET orig == ReadOriginal(index, uaf)
                   id   == Len(plh_hooks) + 1
                   mem  == ApplyEngine(index, replacement, ok, uaf)
               IN  /\ vptr' = mem.vptr
                   /\ tables' = mem.tables
                   /\ freed' = mem.freed
                   /\ plh_hooks' = mem.hooks
                   /\ IF ok
                      THEN /\ m_hooks' = Append(m_hooks, NewEntry(index, orig, id))
                           /\ snap' = IF m_hooks = <<>>
                                      THEN [vptr |-> vptr, tables |-> tables]
                                      ELSE snap
                           /\ v_last' = VCall("apply", index, replacement,
                                              ApplyReturn(orig), "ok")
                      ELSE /\ m_hooks' = HooksOnFailure(index, orig, id)
                           /\ snap' = snap
                           /\ v_last' = VCall("apply", index, replacement, 0, "fail")
            /\ UNCHANGED <<m_instance, m_mode, v_alive>>

\* if (e.vfunc) e.vfunc->unHook();  if (e.vtable) e.vtable->unHook();
\* then, at clear(), the entry's handle is destroyed.
UnhookEntry(mem, e) ==
    LET m1 == IF e.vfunc # 0 THEN PLH_VFuncSwapHook_unHook(mem, e.vfunc) ELSE mem
        m2 == IF e.vtable # 0 THEN PLH_VTableSwapHook_unHook(m1, e.vtable) ELSE m1
        id == IF e.vfunc # 0 THEN e.vfunc ELSE e.vtable
    IN  [m2 EXCEPT !.hooks[id].live = FALSE]

\* Faulty variant: the entries are cleared without being un-hooked
UnhookLoop_Skipped(mem, entries) == mem

\* for (auto& e : m_hooks): the entries in the order they were recorded
RECURSIVE UnhookLoop(_, _)
UnhookLoop(mem, entries) ==
    IF entries = <<>> THEN mem
    ELSE UnhookLoop(UnhookEntry(mem, Head(entries)), Tail(entries))

\* the body of void unhook_all()
unhook_all_body ==
    LET mem == UnhookLoop(Mem, m_hooks)
    IN  /\ vptr' = mem.vptr
        /\ tables' = mem.tables
        /\ freed' = mem.freed
        /\ plh_hooks' = mem.hooks
        /\ m_hooks' = <<>>

\* void unhook_all()
c_vtable_hook_unhook_all ==
    /\ v_alive
    /\ unhook_all_body
    /\ v_last' = VCall("unhook_all", 0, 0, 0, IF m_hooks # <<>> THEN "unhook" ELSE "none")
    /\ UNCHANGED <<m_instance, m_mode, v_alive, snap>>

\* ~c_vtable_hook() override { unhook_all(); }
c_vtable_hook_dtor ==
    /\ v_alive
    /\ unhook_all_body
    /\ v_alive' = FALSE
    /\ v_last' = VCall("destroy", 0, 0, 0, IF m_hooks # <<>> THEN "unhook" ELSE "none")
    /\ UNCHANGED <<m_instance, m_mode, snap>>

\* c_hook::apply(uintptr_t) { return 0; }  (not overridden by c_vtable_hook)
c_vtable_hook_apply_dest(dest) ==
    /\ v_alive
    /\ v_last' = VCall("apply_dest", 0, dest, 0, "none")
    /\ UNCHANGED <<m_instance, m_mode, m_hooks, v_alive, vptr, tables, freed,
                   plh_hooks, snap>>

\* Before any hook both instances dispatch through the shared table 0.
InitVptr == (InstA :> 0) @@ (InstB :> 0)

\* The call record of a c_vtable_hook on which nothing has been called yet.
NoVCall(t) ==
    [op |-> "init", index |-> 0, repl |-> 0, ret |-> 0, engine |-> "none",
     pre_hooks |-> <<>>, pre_vptr |-> InitVptr, pre_tables |-> (0 :> t),
     pre_freed |-> {}, pre_sessions |-> 0]

\* ============================================================ specifications

\* c_detour() = default;  explicit c_detour(address_t src) : m_src(src) {}
\* (no c_vtable_hook is bound: m_instance = 0)
InitD ==
    /\ m_src \in SrcAddrs
    /\ m_trampoline = 0
    /\ m_detour = 0
    /\ d_alive = TRUE
    /\ code_target = 0
    /\ plh_detours = <<>>
    /\ d_last = NoDCall
    /\ m_instance = 0
    /\ m_mode = "vfunc_swap"
    /\ m_hooks = <<>>
    /\ v_alive = TRUE
    /\ vptr = InitVptr
    /\ tables = (0 :> BaseTable)
    /\ freed = {}
    /\ plh_hooks = <<>>
    /\ snap = [vptr |-> InitVptr, tables |-> (0 :> BaseTable)]
    /\ v_last = NoVCall(BaseTable)

\* explicit c_vtable_hook(uintptr_t instance, mode m = mode::vfunc_swap)
\* (the c_detour is default-constructed: m_src = 0)
InitV ==
    /\ m_instance \in HookInstances
    /\ m_mode \in Modes
    /\ m_hooks = <<>>
    /\ v_alive = TRUE
    /\ vptr = InitVptr
    /\ tables \in {(0 :> t) : t \in InitTables}
    /\ freed = {}
    /\ plh_hooks = <<>>
    /\ snap = [vptr |-> vptr, tables |-> tables]
    /\ v_last = NoVCall(tables[0])
    /\ m_src = 0
    /\ m_trampoline = 0
    /\ m_detour = 0
    /\ d_alive = TRUE
    /\ code_target = 0
    /\ plh_detours = <<>>
    /\ d_last = NoDCall

NextDetour ==
    \/ \E dest \in Dests, ok \in BOOLEAN, t \in Tramps \cup FailTramps :
          c_detour_apply(dest, ok, t) /\ UNCHANGED vvars
    \/ c_detour_unhook /\ UNCHANGED vvars
    \/ c_detour_dtor /\ UNCHANGED vvars
    \/ \E dest \in Dests : c_detour_apply_index(dest) /\ UNCHANGED vvars

NextVtable ==
    \/ \E index \in Indices, replacement \in Replacements, ok \in BOOLEAN,
          uaf \in UafOutcomes :
          c_vtable_hook_apply(index, replacement, ok, uaf) /\ UNCHANGED dvars
    \/ c_vtable_hook_unhook_all /\ UNCHANGED dvars
    \/ c_vtable_hook_dtor /\ UNCHANGED dvars
    \/ \E dest \in Dests : c_vtable_hook_apply_dest(dest) /\ UNCHANGED dvars

SpecDetour == InitD /\ [][NextDetour]_vars
SpecVtable == InitV /\ [][NextVtable]_vars

\* One hook held through the c_hook interface: either a c_detour or a
\* c_vtable_hook is constructed, and no object of the other class exists.
InitHook ==
    \/ /\ m_src \in SrcAddrs
       /\ m_trampoline = 0
       /\ m_detour = 0
       /\ d_alive = TRUE
       /\ code_target = 0
       /\ plh_detours = <<>>
       /\ d_last = NoDCall
       /\ m_instance = 0
       /\ m_mode = "vfunc_swap"
       /\ m_hooks = <<>>
       /\ v_alive = FALSE
       /\ vptr = InitVptr
       /\ tables = (0 :> BaseTable)
       /\ freed = {}
       /\ plh_hooks = <<>>
       /\ snap = [vptr |-> InitVptr, tables |-> (0 :> BaseTable)]
       /\ v_last = NoVCall(BaseTable)
    \/ /\ m_instance \in HookInstances
       /\ m_mode \in Modes
       /\ m_hooks = <<>>
       /\ v_alive = TRUE
       /\ vptr = InitVptr
       /\ tables \in {(0 :> t) : t \in InitTables}
       /\ freed = {}
       /\ plh_hooks = <<>>
       /\ snap = [vptr |-> vptr, tables |-> tables]
       /\ v_last = NoVCall(tables[0])
       /\ m_src = 0
       /\ m_trampoline = 0
       /\ m_detour = 0
       /\ d_alive = FALSE
       /\ code_target = 0
       /\ plh_detours = <<>>
       /\ d_last = NoDCall

NextHook == NextDetour \/ NextVtable

SpecHook == InitHook /\ [][NextHook]_vars

\* ==================================================================== claims

\* Entries at pairwise distinct indices.
DistinctIndices(entries) ==
    \A a, b \in 1..Len(entries) : a # b => entries[a].index # entries[b].index

\* Entries at pairwise distinct indices, each of which the engine's 16-bit slot
\* index can express: the installs every contract of the layer allows.
PlainIndices(entries) ==
    /\ DistinctIndices(entries)
    /\ \A a \in 1..Len(entries) : entries[a].index < U16

\* The instance dispatches as it did when the first entry was installed: same
\* table pointer, a table that has not been released, same slot contents.
DispatchRestored ==
    /\ vptr[InstA] = snap.vptr[InstA]
    /\ vptr[InstA] \notin freed
    /\ tables[vptr[InstA]] = snap.tables[snap.vptr[InstA]]

\* C1 (as claimed): after N >= 1 successful apply calls at pairwise distinct
\* indices, under either strategy, unhook_all() leaves m_hooks empty and the
\* instance dispatching, at every previously redirected index, to the original
\* captured for that index, with the table pointer and the slot contents as
\* they were before the first install.  It is stated for indices below 2^16
\* only, the narrower case: a failure of it is a failure of the claim.
C1_BulkTeardown ==
    (/\ v_last.op = "unhook_all"
     /\ Len(v_last.pre_hooks) >= 1
     /\ PlainIndices(v_last.pre_hooks))
    => /\ m_hooks = <<>>
       /\ DispatchRestored
       /\ \A k \in 1..Len(v_last.pre_hooks) :
             tables[vptr[InstA]][v_last.pre_hooks[k].index] = v_last.pre_hooks[k].original

\* C2 (as claimed): apply(dest) returns 0, leaves the trampoline at 0 and asks
\* nothing of the engine whenever m_src is 0 or dest is 0, in every state of the
\* hook, the installed one included.
C2_NullSafetyEveryState ==
    (d_last.op = "apply" /\ (m_src = 0 \/ d_last.dest = 0))
    => /\ d_last.ret = 0
       /\ m_trampoline = 0
       /\ d_last.engine = "none"

\* C2 (amended): with m_src = 0 or dest = 0, apply(dest) asks nothing of the
\* engine and changes no state; it returns 0 with the trampoline at 0 when the
\* hook is not installed, and the existing trampoline when it is installed.
C2_NullSafety ==
    (d_last.op = "apply" /\ (m_src = 0 \/ d_last.dest = 0))
    => /\ d_last.engine = "none"
       /\ Len(plh_detours) = d_last.pre_sessions
       /\ code_target = d_last.pre_target
       /\ m_detour = d_last.pre_detour
       /\ m_trampoline = d_last.pre_trampoline
       /\ d_last.pre_detour = 0 => (d_last.ret = 0 /\ m_trampoline = 0)
       /\ d_last.pre_detour # 0 => (d_last.ret = m_trampoline /\ d_last.ret # 0)

\* C2 witness: apply(0) on a hook with a non-zero source that was installed
\* and removed before.
C2_Witness ==
    /\ d_last.op = "apply" /\ d_last.dest = 0 /\ m_src # 0
    /\ d_last.pre_detour = 0
    /\ \E k \in 1..Len(plh_detours) : plh_detours[k].unhooks = 1

\* C3: once apply has succeeded, every further apply before unhook returns the
\* same trampoline, asks nothing of the engine (the session was committed
\* exactly once) and leaves the source redirected to the first destination.
C3_IdempotentInstall ==
    (d_last.op = "apply" /\ d_last.pre_detour # 0)
    => /\ d_last.ret = d_last.pre_trampoline
       /\ m_trampoline = d_last.pre_trampoline
       /\ d_last.engine = "none"
       /\ Len(plh_detours) = d_last.pre_sessions
       /\ m_detour = d_last.pre_detour
       /\ plh_detours[m_detour].hooks = 1
       /\ code_target = plh_detours[m_detour].dest
       /\ code_target = d_last.pre_target

\* C3 witness: a second apply, with another non-zero destination, on an
\* installed hook.
C3_Witness ==
    /\ d_last.op = "apply" /\ d_last.pre_detour # 0
    /\ d_last.dest # 0
    /\ d_last.dest # plh_detours[d_last.pre_detour].dest

\* C4: the trampoline is non-zero exactly when the patch session is present
\* (and that session is committed and not yet undone), so original() is zero
\* exactly when the hook is not installed.
C4_TrampolineIffSession ==
    /\ (m_trampoline # 0) <=> (m_detour # 0)
    /\ (original = 0) <=> (m_detour = 0)
    /\ m_detour # 0 =>
          /\ m_detour \in 1..Len(plh_detours)
          /\ plh_detours[m_detour].live
          /\ plh_detours[m_detour].hooks = 1
          /\ plh_detours[m_detour].unhooks = 0

\* C4 witness: installed again after one failed install and one removal.
C4_Witness ==
    /\ m_detour # 0 /\ m_trampoline # 0
    /\ \E k \in 1..Len(plh_detours) : plh_detours[k].hooks = 0
    /\ \E k \in 1..Len(plh_detours) : plh_detours[k].unhooks = 1

\* C5: when the engine rejects the redirect, apply returns 0, the session just
\* built is released without ever being committed or undone, the trampoline
\* is 0, the source is not redirected, and the hook is not installed; and an
\* apply on a hook that is not installed, with non-zero source and destination,
\* always builds a new engine session.
C5_EngineFailure ==
    /\ (d_last.op = "apply" /\ d_last.engine = "fail")
       => /\ d_last.ret = 0
          /\ m_detour = 0
          /\ m_trampoline = 0
          /\ original = 0
          /\ code_target = 0 /\ code_target = d_last.pre_target
          /\ Len(plh_detours) = d_last.pre_sessions + 1
          /\ ~plh_detours[Len(plh_detours)].live
          /\ plh_detours[Len(plh_detours)].hooks = 0
          /\ plh_detours[Len(plh_detours)].unhooks = 0
    /\ (d_last.op = "apply" /\ d_last.pre_detour = 0 /\ m_src # 0 /\ d_last.dest # 0)
       => /\ d_last.engine \in {"ok", "fail"}
          /\ Len(plh_detours) = d_last.pre_sessions + 1

\* C5 witness: the engine rejects an apply that follows a rejected apply.
C5_Witness ==
    /\ d_last.op = "apply" /\ d_last.engine = "fail"
    /\ d_last.pre_sessions >= 1
    /\ plh_detours[d_last.pre_sessions].hooks = 0

\* C6: apply(index, replacement) returns 0, appends nothing to m_hooks and
\* leaves the recorded entries as they were when the instance address is 0 (and
\* then the engine is not asked and no memory changes) or the engine rejects
\* the redirect, under either strategy.
C6_VtableInstallFailure ==
    (v_last.op = "apply" /\ (m_instance = 0 \/ v_last.engine = "fail"))
    => /\ v_last.ret = 0
       /\ m_hooks = v_last.pre_hooks
       /\ m_instance = 0 =>
             /\ v_last.engine = "none"
             /\ Len(plh_hooks) = v_last.pre_sessions
             /\ vptr = v_last.pre_vptr /\ tables = v_last.pre_tables

\* C6 witness: the engine rejects a redirect while an entry is recorded.
C6_Witness ==
    /\ v_last.op = "apply" /\ v_last.engine = "fail"
    /\ Len(v_last.pre_hooks) >= 1
    /\ m_hooks = v_last.pre_hooks

\* C7 (as claimed): for every content of the targeted slot, an apply that
\* returns 0 installed no redirection and recorded no entry, and an apply that
\* recorded an entry returned a non-zero value.
C7_ZeroMeansNotActive ==
    v_last.op = "apply"
    => /\ v_last.ret = 0 =>
             /\ m_hooks = v_last.pre_hooks
             /\ vptr = v_last.pre_vptr
             /\ tables = v_last.pre_tables
       /\ m_hooks # v_last.pre_hooks => v_last.ret # 0

\* C8: under vtable_swap the original table (table 0) is never written or
\* released, instance B keeps pointing to it and so reads its original value
\* at every slot, and only A's table pointer changes.
C8_WholeTableIsolation ==
    m_mode = "vtable_swap"
    => /\ tables[0] = v_last.pre_tables[0]
       /\ tables[0] \in InitTables
       /\ 0 \notin freed
       /\ vptr[InstB] = 0
       /\ \A s \in Slots : tables[vptr[InstB]][s] = snap.tables[0][s]

\* C8 witness: two redirections installed on A through clones.
C8_Witness ==
    /\ m_mode = "vtable_swap"
    /\ v_last.op = "apply" /\ v_last.engine = "ok"
    /\ Len(m_hooks) >= 2
    /\ vptr[InstA] # 0
    /\ tables[vptr[InstA]][v_last.index] = v_last.repl

\* C9 (as claimed): a successful apply(i, replacement) under vfunc_swap changes
\* only slot i of the shared table: every slot j # i and A's table pointer are
\* unchanged, and slot i holds the replacement for every instance on the table.
C9_SingleSlotIsolation ==
    (v_last.op = "apply" /\ v_last.engine = "ok" /\ m_mode = "vfunc_swap")
    => /\ vptr = v_last.pre_vptr
       /\ \A j \in Slots \ {v_last.index} :
             tables[vptr[InstA]][j] = v_last.pre_tables[vptr[InstA]][j]
       /\ \A k \in 1..Len(Instances) :
             tables[vptr[Instances[k]]][v_last.index] = v_last.repl

\* C10 (as claimed): destroying a c_vtable_hook with recorded entries (either
\* strategy, any number of entries) leaves no live engine session, the table
\* pointer on the original table and never on a released clone, and every slot
\* with its pre-hook value; destroying a c_detour leaves the source unpatched.
\* It is stated for entries at pairwise distinct indices below 2^16 only, the
\* narrower case: a failure of it is a failure of the claim.
C10_DestructionSafety ==
    /\ (v_last.op = "destroy" /\ v_last.pre_hooks # <<>>
                               /\ PlainIndices(v_last.pre_hooks))
       => /\ m_hooks = <<>>
          /\ \A k \in 1..Len(plh_hooks) : ~plh_hooks[k].live
          /\ DispatchRestored
    /\ d_last.op = "destroy"
       => /\ code_target = 0
          /\ m_detour = 0
          /\ \A k \in 1..Len(plh_detours) : ~plh_detours[k].live

\* No detour session is committed and not yet undone: the hook was never
\* installed, its install failed, or it was removed.
NoCommittedDetour ==
    \A k \in 1..Len(plh_detours) :
        plh_detours[k].hooks = 0 \/ plh_detours[k].unhooks >= 1

\* C11: unhook() on a c_detour that is not installed (never installed, or
\* already removed) and unhook_all() on a c_vtable_hook with no entries make
\* no engine call and change no state of the hook, of the engine or of the
\* patched memory; so a second removal changes nothing after the first.
C11_RemovalNoOp ==
    [][/\ (d_last'.op = "unhook" /\ UNCHANGED vvars /\ NoCommittedDetour)
          => /\ d_last'.engine = "none"
             /\ UNCHANGED <<m_src, m_trampoline, m_detour, d_alive, code_target,
                            plh_detours>>
       /\ (v_last'.op = "unhook_all" /\ UNCHANGED dvars /\ m_hooks = <<>>)
          => /\ v_last'.engine = "none"
             /\ UNCHANGED <<m_instance, m_mode, m_hooks, v_alive, vptr, tables,
                            freed, plh_hooks, snap>>]_vars

\* C11 witness: unhook() right after an unhook() that removed an installed detour.
C11_Witness ==
    /\ d_last.op = "unhook" /\ d_last.engine = "none"
    /\ m_detour = 0 /\ code_target = 0
    /\ d_last.pre_sessions >= 1
    /\ plh_detours[d_last.pre_sessions].unhooks = 1

\* C12: unhook() on an installed c_detour restores the source to its
\* un-redirected state, undoes and releases the session and resets the
\* trampoline to 0; an apply that follows with the same destination builds a
\* new engine session, and when the engine accepts it returns the non-zero
\* trampoline of that session with the source redirected again.
C12_RoundTripRestore ==
    /\ (d_last.op = "unhook" /\ d_last.pre_detour # 0)
       => /\ d_last.engine = "unhook"
          /\ code_target = 0
          /\ m_trampoline = 0 /\ original = 0
          /\ m_detour = 0
          /\ plh_detours[d_last.pre_detour].unhooks = 1
          /\ ~plh_detours[d_last.pre_detour].live
    /\ (/\ d_last.op = "apply" /\ d_last.pre_detour = 0
        /\ d_last.pre_sessions >= 1
        /\ plh_detours[d_last.pre_sessions].unhooks = 1
        /\ plh_detours[d_last.pre_sessions].dest = d_last.dest)
       => /\ d_last.pre_target = 0
          /\ d_last.engine \in {"ok", "fail"}
          /\ Len(plh_detours) = d_last.pre_sessions + 1
          /\ d_last.engine = "ok" =>
                /\ d_last.ret # 0 /\ d_last.ret = m_trampoline
                /\ m_detour = Len(plh_detours)
                /\ plh_detours[m_detour].hooks = 1
                /\ plh_detours[m_detour].unhooks = 0
                /\ code_target = d_last.dest

\* C12 witness: install, remove, install again with the same destination.
C12_Witness ==
    /\ d_last.op = "apply" /\ d_last.engine = "ok"
    /\ d_last.pre_sessions >= 1
    /\ plh_detours[d_last.pre_sessions].unhooks = 1
    /\ plh_detours[d_last.pre_sessions].dest = d_last.dest
    /\ m_detour = d_last.pre_sessions + 1

\* C13: apply(index, dest) on a c_detour and apply(dest) on a c_vtable_hook
\* return 0 and change nothing: not the hook, not the engine's sessions, not
\* the patched code or the dispatch tables, in every state of the hook.
C13_InapplicableOverload ==
    [][/\ (d_last'.op = "apply_index" /\ UNCHANGED vvars)
          => /\ d_last'.ret = 0
             /\ d_last'.engine = "none"
             /\ UNCHANGED <<m_src, m_trampoline, m_detour, d_alive, code_target,
                            plh_detours>>
       /\ (v_last'.op = "apply_dest" /\ UNCHANGED dvars)
          => /\ v_last'.ret = 0
             /\ v_last'.engine = "none"
             /\ UNCHANGED <<m_instance, m_mode, m_hooks, v_alive, vptr, tables,
                            freed, plh_hooks, snap>>]_vars

\* C13 witness: the unused overload is called on an installed c_detour.
C13_Witness ==
    /\ d_last.op = "apply_index" /\ d_last.dest # 0
    /\ m_detour # 0 /\ m_trampoline # 0
    /\ d_last.ret = 0

\* The engine object an entry of m_hooks owns.
Handle(e) == IF e.vfunc # 0 THEN e.vfunc ELSE e.vtable

\* Sessions that are committed and not yet undone.
Committed(sessions) ==
    {k \in 1..Len(sessions) : sessions[k].hooks = 1 /\ sessions[k].unhooks = 0}

\* C14: every engine session is committed at most once and un-hooked at most
\* once, and only after its commit; a session whose commit failed is released
\* without ever being un-hooked; a committed session that is not yet un-hooked
\* is the one the hook still owns (m_detour, resp. exactly one entry of
\* m_hooks), so none is skipped; after unhook, unhook_all or destruction every
\* committed session has been un-hooked exactly once and released.
C14_ReleaseExactlyOnce ==
    /\ \A k \in 1..Len(plh_detours) :
          /\ plh_detours[k].hooks <= 1
          /\ plh_detours[k].unhooks <= plh_detours[k].hooks
          /\ plh_detours[k].live <=> (k = m_detour)
          /\ (k \in Committed(plh_detours)) <=> (k = m_detour)
    /\ \A k \in 1..Len(plh_hooks) :
          /\ plh_hooks[k].hooks <= 1
          /\ plh_hooks[k].unhooks <= plh_hooks[k].hooks
          /\ plh_hooks[k].live <=> (k \in Committed(plh_hooks))
          /\ (k \in Committed(plh_hooks))
                <=> (Cardinality({j \in 1..Len(m_hooks) : Handle(m_hooks[j]) = k}) = 1)
    /\ \A j \in 1..Len(m_hooks) : Handle(m_hooks[j]) \in Committed(plh_hooks)
    /\ d_last.op \in {"unhook", "destroy"} =>
          \A k \in 1..Len(plh_detours) :
              plh_detours[k].unhooks = plh_detours[k].hooks /\ ~plh_detours[k].live
    /\ v_last.op \in {"unhook_all", "destroy"} =>
          \A k \in 1..Len(plh_hooks) :
              plh_hooks[k].unhooks = plh_hooks[k].hooks /\ ~plh_hooks[k].live

\* C14 witness: a c_vtable_hook destroyed with two entries, after one rejected
\* install: both committed sessions un-hooked once, the rejected one never.
C14_Witness ==
    /\ v_last.op = "destroy" /\ Len(v_last.pre_hooks) = 2
    /\ \E k \in 1..Len(plh_hooks) : plh_hooks[k].hooks = 0 /\ plh_hooks[k].unhooks = 0
    /\ \A j \in 1..2 : plh_hooks[Handle(v_last.pre_hooks[j])].unhooks = 1

\* C15: m_hooks holds one entry per successful apply since the last
\* unhook_all, in call order: a successful apply appends one entry with the
\* index passed and the slot value read (which it returns), every other call
\* leaves the list or empties it; each entry holds exactly one non-null handle,
\* of the kind of the hook's mode, to a committed session, and the handles are
\* the committed sessions in the order they were created.
C15_EntryList ==
    /\ \A k \in 1..Len(m_hooks) :
          /\ m_mode = "vfunc_swap" =>
                /\ m_hooks[k].vfunc # 0 /\ m_hooks[k].vtable = 0
                /\ plh_hooks[m_hooks[k].vfunc].kind = "vfunc"
          /\ m_mode = "vtable_swap" =>
                /\ m_hooks[k].vtable # 0 /\ m_hooks[k].vfunc = 0
                /\ plh_hooks[m_hooks[k].vtable].kind = "vtable"
          /\ \A j \in 1..Len(m_hooks) : j < k => Handle(m_hooks[j]) < Handle(m_hooks[k])
    /\ {Handle(m_hooks[k]) : k \in 1..Len(m_hooks)} = Committed(plh_hooks)
    /\ (v_last.op = "apply" /\ v_last.engine = "ok") =>
          /\ Len(m_hooks) = Len(v_last.pre_hooks) + 1
          /\ SubSeq(m_hooks, 1, Len(v_last.pre_hooks)) = v_last.pre_hooks
          /\ m_hooks[Len(m_hooks)].index = v_last.index
          /\ m_hooks[Len(m_hooks)].original = v_last.ret
          /\ Handle(m_hooks[Len(m_hooks)]) = Len(plh_hooks)
          /\ v_last.pre_vptr[m_instance] \notin v_last.pre_freed =>
                m_hooks[Len(m_hooks)].original
                   = v_last.pre_tables[v_last.pre_vptr[m_instance]][v_last.index]
    /\ (v_last.op \in {"apply", "apply_dest"} /\ v_last.engine # "ok") =>
          m_hooks = v_last.pre_hooks
    /\ v_last.op \in {"unhook_all", "destroy"} => m_hooks = <<>>

\* C15 witness: a third entry recorded under vtable_swap.
C15_Witness ==
    /\ m_mode = "vtable_swap"
    /\ v_last.op = "apply" /\ v_last.engine = "ok"
    /\ Len(m_hooks) = 3
    /\ m_hooks[3].index = v_last.index

\* Positions of the entries recorded for an index.
EntriesAt(entries, index) == {k \in 1..Len(entries) : entries[k].index = index}

\* C16 (as claimed): a successful apply(index, replacement) returns the
\* pointer stored at index in the table the instance points to at call time,
\* under both strategies; hence a second successful apply at an index already
\* redirected by this hook returns the first call's replacement.
C16_OriginalFromLiveTable ==
    (/\ v_last.op = "apply" /\ v_last.engine = "ok"
     /\ v_last.pre_vptr[m_instance] \notin v_last.pre_freed)
    => /\ v_last.ret = v_last.pre_tables[v_last.pre_vptr[m_instance]][v_last.index]
       /\ \A k \in EntriesAt(v_last.pre_hooks, v_last.index) :
             Cardinality(EntriesAt(v_last.pre_hooks, v_last.index)) = 1
             => v_last.ret = plh_hooks[Handle(v_last.pre_hooks[k])].repl

\* C17 (as claimed): for every index apply accepts, the slot the engine is
\* asked to redirect is the slot that was read: the index recorded in the
\* entry, the index read and the index handed to the engine are equal, and the
\* value the engine replaces is the original recorded and returned.
C17_IndexAgreement ==
    (v_last.op = "apply" /\ v_last.engine \in {"ok", "fail"})
    => /\ plh_hooks[Len(plh_hooks)].index = v_last.index
       /\ v_last.engine = "ok" =>
             /\ m_hooks[Len(m_hooks)].index = plh_hooks[Len(plh_hooks)].index
             /\ m_hooks[Len(m_hooks)].original = plh_hooks[Len(plh_hooks)].saved

\* C18 (as claimed): while m_hooks holds k >= 1 entries at pairwise distinct
\* indices, dispatch through the instance resolves, at each of the k indices,
\* to the replacement installed there, and at every other index to the value
\* the slot had before the first install.
C18_RedirectionsCoexist ==
    (m_hooks # <<>> /\ DistinctIndices(m_hooks))
    => /\ vptr[m_instance] \notin freed
       /\ \A i \in Slots :
             tables[vptr[m_instance]][i] =
                IF EntriesAt(m_hooks, i) # {}
                THEN plh_hooks[Handle(m_hooks[CHOOSE k \in EntriesAt(m_hooks, i) : TRUE])].repl
                ELSE snap.tables[snap.vptr[m_instance]][i]

====
